---------------------------- MODULE Spec2Model ----------------------------
(***************************************************************************)
(* The tunnel engine of go-tunnel (internal/tunnel/tunnel.go, the current  *)
(* revision at lines 218-653 of the file) and the RPC handlers of          *)
(* cmd/tunneld/main.go that drive it.                                       *)
(*                                                                         *)
(* Goroutines are modelled by program counters:                            *)
(*   - an RPC handler holding TunnelManager.mu (cr: CreateTunnel is the    *)
(*     only handler that blocks on the network while it holds the lock),   *)
(*   - Tunnel.start (mainPc), Tunnel.monitorHealth (healthPc),             *)
(*   - the SSH keepalive goroutine of CreateTunnel (clients[c].ka),        *)
(*   - Tunnel.forward, its dial goroutine and its two copyData goroutines  *)
(*     (sess[s]),                                                          *)
(*   - Tunnel.reconnectSSH as run by any of its callers (rc[p]).           *)
(* Timers, the network and the peers are the environment: a timer that is  *)
(* armed may fire, a dial may fail, a transport may drop.                  *)
(***************************************************************************)
EXTENDS Integers, FiniteSets, Sequences, TLC

\* ----------------------------------------------------------------- bounds
MaxTunnels == 2
MaxClients == 3
MaxSessions == 2
MaxBytes == 2
MaxTime == 2

Hosts == {"h1"}
LocalPorts == {8080, 9090}
RemotePorts == {80, 81}

TunnelIds == 1..MaxTunnels
ClientIds == 1..MaxClients
Sessions == 1..MaxSessions
NoTunnel == 0
NoClient == 0

\* key := fmt.Sprintf("%s:%d", host, remotePort): the local port is not part of it
Key(host, remotePort) == <<host, remotePort>>
Keys == {Key(h, rp) : h \in Hosts, rp \in RemotePorts}

\* The goroutines that can run reconnectSSH: a tunnel's start loop, a session's dial goroutine
MainProc(t) == <<"start", t>>
DialProc(s) == <<"forward", s>>
Procs == {MainProc(t) : t \in TunnelIds} \cup {DialProc(s) : s \in Sessions}

\* ------------------------------------------------------------------ state
VARIABLES
    tunnels,    \* TunnelManager.tunnels: key -> tunnel object (NoTunnel: no entry)
    cr,         \* the CreateTunnel call that holds TunnelManager.mu, if any
    ret,        \* the reply of the RPC that returned in the last step
    tobj,       \* the Tunnel objects allocated so far
    mainPc,     \* Tunnel.start, per tunnel object
    healthPc,   \* Tunnel.monitorHealth, per tunnel object
    clients,    \* every TCP connection / SSH client dialed so far
    reachable,  \* whether <host>:22 accepts connections and completes the handshake
    sess,       \* forwarding sessions (Tunnel.forward and its goroutines)
    rc          \* reconnectSSH activations, per calling goroutine

vars == <<tunnels, cr, ret, tobj, mainPc, healthPc, clients, reachable, sess, rc>>

NoCreate == [phase |-> "idle", host |-> "", lp |-> 0, rp |-> 0, conn |-> NoClient]
NoRet == [op |-> "none", host |-> "", lp |-> 0, rp |-> 0, err |-> "", count |-> 0, list |-> {}, seq |-> <<>>]
NoTobj == [st |-> "none", host |-> "", lp |-> 0, rp |-> 0, client |-> NoClient,
           client0 |-> NoClient, listener |-> "none", done |-> "none", isActive |-> FALSE,
           activeConns |-> 0, totalConns |-> 0, bytes |-> [up |-> 0, down |-> 0],
           clock |-> 0, createdAt |-> 0, lastActivity |-> 0]
NoConn == [st |-> "none", up |-> FALSE, ka |-> "none"]
NoSess == [t |-> NoTunnel, fwd |-> "idle", dial |-> "none", attempts |-> 0, waitOn |-> NoClient,
           remote |-> NoClient, remoteClosed |-> FALSE, local |-> "none",
           up |-> "none", down |-> "none", ctx |-> FALSE,
           buf |-> [up |-> 0, down |-> 0], moved |-> [up |-> 0, down |-> 0]]
NoRc == [pc |-> "idle", new |-> NoClient, old |-> NoClient, installed |-> FALSE]

Init ==
    /\ tunnels = [k \in Keys |-> NoTunnel]
    /\ cr = NoCreate
    /\ ret = NoRet
    /\ tobj = [t \in TunnelIds |-> NoTobj]
    /\ mainPc = [t \in TunnelIds |-> "none"]
    /\ healthPc = [t \in TunnelIds |-> "none"]
    /\ clients = [c \in ClientIds |-> NoConn]
    /\ reachable = [h \in Hosts |-> TRUE]
    /\ sess = [s \in Sessions |-> NoSess]
    /\ rc = [p \in Procs |-> NoRc]

\* ---------------------------------------------------------------- helpers
\* An unused slot: the next object the allocator hands out
FreeTunnels == {t \in TunnelIds : tobj[t].st = "none"}
FreeClients == {c \in ClientIds : clients[c].st = "none"}
FreeSessions == {s \in Sessions : sess[s].fwd = "idle"}
NextTunnel == CHOOSE t \in FreeTunnels : \A u \in FreeTunnels : t <= u
NextClient == CHOOSE c \in FreeClients : \A u \in FreeClients : c <= u
NextSession == CHOOSE s \in FreeSessions : \A u \in FreeSessions : s <= u

\* An SSH client answers requests and opens channels while it has not been closed
\* and its TCP transport is up
Usable(c) == c # NoClient /\ clients[c].st = "open" /\ clients[c].up

\* Conn.Wait() returns once the connection has shut down (closed here or transport lost)
ShutDown(c) == c # NoClient /\ (clients[c].st = "closed" \/ ~clients[c].up)

\* Faulty variant of CloseClient: every open client of the process is closed
CloseClientAll(cs, c) ==
    [x \in DOMAIN cs |-> IF x = c \/ cs[x].st = "open"
                         THEN [cs[x] EXCEPT !.st = "closed", !.up = FALSE]
                         ELSE cs[x]]

\* (*ssh.Client).Close / net.Conn.Close: idempotent; it closes the TCP
\* connection underneath
CloseClient(cs, c) == [cs EXCEPT ![c].st = "closed", ![c].up = FALSE]

\* Faulty variant of MutexFree: tm.mu is never waited for
MutexFreeAlways == TRUE

\* tm.mu can be taken: no CreateTunnel call is between its Lock and its return
MutexFree == cr.phase = "idle"

Registered == {k \in Keys : tunnels[k] # NoTunnel}

\* A local port is taken while a listener of this process is bound to it
PortBound(lp) == \E t \in TunnelIds : tobj[t].st = "live" /\ tobj[t].lp = lp /\ tobj[t].listener = "open"


\* ------------------------------------------------- TunnelManager.CreateTunnel
Reply(op, host, lp, rp, err) ==
    [op |-> op, host |-> host, lp |-> lp, rp |-> rp, err |-> err, count |-> 0, list |-> {}, seq |-> <<>>]

\* Faulty variant of Exists: the duplicate check finds nothing
ExistsNever(key) == FALSE

\* if _, exists := tm.tunnels[key]; exists
Exists(key) == tunnels[key] # NoTunnel

\* Faulty variant of ReleaseOnError: the error path forgets the Close
ReleaseNothing(cs, c) == cs

\* conn.Close() / client.Close() on CreateTunnel's error paths
ReleaseOnError(cs, c) == CloseClient(cs, c)

SockOptErrors == {"failed to enable keepalive", "failed to set keepalive period", "failed to set linger"}

\* Lock, the duplicate check, and (no duplicate) the start of the TCP dial
CreateTunnelBegin(host, lp, rp) ==
    /\ MutexFree
    /\ IF Exists(Key(host, rp))
       THEN /\ ret' = Reply("create", host, lp, rp, "tunnel already exists")
            /\ UNCHANGED cr
       ELSE /\ cr' = [phase |-> "connect", host |-> host, lp |-> lp, rp |-> rp, conn |-> NoClient]
            /\ ret' = NoRet
    /\ UNCHANGED <<tunnels, tobj, mainPc, healthPc, clients, reachable, sess, rc>>

\* dialer.Dial("tcp", host:22), the three socket options, ssh.NewClientConn,
\* ssh.NewClient, go <keepalive loop>. The dial fails when the host does not
\* answer or the process has no descriptor left (the model's MaxClients); a
\* socket option may fail; the handshake fails when the host stops answering.
\* Every failure after the dial runs conn.Close().
CreateTunnelConnect ==
    /\ cr.phase = "connect"
    /\ IF reachable[cr.host] /\ FreeClients # {}
       THEN \/ /\ clients' = [clients EXCEPT ![NextClient] = [st |-> "open", up |-> TRUE, ka |-> "running"]]
               /\ cr' = [cr EXCEPT !.phase = "listen", !.conn = NextClient]
               /\ ret' = NoRet
            \/ \E e \in SockOptErrors \cup {"failed to create SSH connection"} :
               /\ clients' = ReleaseOnError([clients EXCEPT ![NextClient] = [st |-> "tcp", up |-> TRUE, ka |-> "none"]],
                                            NextClient)
               /\ ret' = Reply("create", cr.host, cr.lp, cr.rp, e)
               /\ cr' = NoCreate
       ELSE /\ ret' = Reply("create", cr.host, cr.lp, cr.rp, "failed to connect to host")
            /\ cr' = NoCreate
            /\ UNCHANGED clients
    /\ UNCHANGED <<tunnels, tobj, mainPc, healthPc, reachable, sess, rc>>

\* The Tunnel value built at lines 328-340. Time is counted from this moment:
\* clock is what time.Now() returns to the tunnel's goroutines, now := 0 here,
\* CreatedAt and LastActivity are both now.
NewTunnel(host, lp, rp, c) ==
    [st |-> "live", host |-> host, lp |-> lp, rp |-> rp, client |-> c, client0 |-> c,
     listener |-> "open", done |-> "open", isActive |-> FALSE,
     activeConns |-> 0, totalConns |-> 0, bytes |-> [up |-> 0, down |-> 0],
     clock |-> 0, createdAt |-> 0, lastActivity |-> 0]

\* net.Listen("tcp", localhost:lp); then the Tunnel is built, registered and
\* started (start: the two defers, the ticker, go monitorHealth), Unlock
CreateTunnelListen ==
    /\ cr.phase = "listen"
    /\ \/ /\ ~PortBound(cr.lp)
          /\ FreeTunnels # {}
          /\ tobj' = [tobj EXCEPT ![NextTunnel] = NewTunnel(cr.host, cr.lp, cr.rp, cr.conn)]
          /\ tunnels' = [tunnels EXCEPT ![Key(cr.host, cr.rp)] = NextTunnel]
          /\ mainPc' = [mainPc EXCEPT ![NextTunnel] = "accept"]
          /\ healthPc' = [healthPc EXCEPT ![NextTunnel] = "wait"]
          /\ ret' = Reply("create", cr.host, cr.lp, cr.rp, "")
          /\ UNCHANGED clients
       \/ /\ clients' = ReleaseOnError(clients, cr.conn)
          /\ ret' = Reply("create", cr.host, cr.lp, cr.rp, "failed to start local listener")
          /\ UNCHANGED <<tunnels, tobj, mainPc, healthPc>>
    /\ cr' = NoCreate
    /\ UNCHANGED <<reachable, sess, rc>>

\* ---------------------------------- CloseTunnel, ListTunnels, CloseAllTunnels
\* Faulty variant of Lookup: the key leaves out the remote port, so any
\* tunnel to the host matches
LookupByHost(host, remotePort) ==
    LET ks == {k \in Keys : k[1] = host /\ tunnels[k] # NoTunnel} IN
    IF ks = {} THEN NoTunnel ELSE tunnels[CHOOSE k \in ks : \A j \in ks : k[2] <= j[2]]

\* tunnel, exists := tm.tunnels[key]
Lookup(host, remotePort) == tunnels[Key(host, remotePort)]

\* Faulty variant of Shutdown: the listener is left open
ShutdownDoneOnly(to, t) == [to EXCEPT ![t].done = "closed"]

\* close(tunnel.done); tunnel.listener.Close(); tunnel.client.Close()
Shutdown(to, t) == [to EXCEPT ![t].done = "closed", ![t].listener = "closed"]

\* Faulty variant of Delete: the entry stays in the map
DeleteNothing(reg, key) == reg

\* delete(tm.tunnels, key)
Delete(reg, key) == [reg EXCEPT ![key] = NoTunnel]

CloseTunnel(host, rp) ==
    /\ MutexFree
    /\ LET t == Lookup(host, rp) IN
       IF t = NoTunnel
       THEN /\ ret' = Reply("close", host, 0, rp, "tunnel not found")
            /\ UNCHANGED <<tunnels, tobj, clients>>
       ELSE /\ tobj' = Shutdown(tobj, t)
            /\ clients' = CloseClient(clients, tobj[t].client)
            /\ tunnels' = Delete(tunnels, Key(host, rp))
            /\ ret' = Reply("close", host, 0, rp, "")
    /\ UNCHANGED <<cr, mainPc, healthPc, reachable, sess, rc>>

\* The copies ListTunnels returns, in the map's iteration order (any)
Snapshot(reg) ==
    {[host |-> tobj[reg[k]].host, lp |-> tobj[reg[k]].lp, rp |-> tobj[reg[k]].rp,
      createdAt |-> tobj[reg[k]].createdAt, lastActivity |-> tobj[reg[k]].lastActivity]
        : k \in {j \in Keys : reg[j] # NoTunnel}}

\* The orders in which `for _, t := range tm.tunnels` can visit the entries:
\* the iteration order of a Go map is not specified and differs between runs.
RangeOrders(S) ==
    {q \in [1..Cardinality(S) -> S] : \A i, j \in 1..Cardinality(S) : i # j => q[i] # q[j]}

\* list is the content of the returned slice, seq the slice itself; the RPC
\* handler (main.go:67-90) forwards the slice in the order it receives it.
ListTunnels ==
    /\ MutexFree
    /\ \E q \in RangeOrders(Snapshot(tunnels)) :
          ret' = [Reply("list", "", 0, 0, "") EXCEPT !.list = Snapshot(tunnels), !.seq = q]
    /\ UNCHANGED <<tunnels, cr, tobj, mainPc, healthPc, clients, reachable, sess, rc>>

\* Faulty variant of CloseAllCount: len(tm.tunnels) taken after the loop that
\* deletes every entry
CloseAllCountAfter(reg) == Cardinality({k \in Keys : [j \in Keys |-> NoTunnel][k] # NoTunnel})

\* count := len(tm.tunnels), before the loop
CloseAllCount(reg) == Cardinality({k \in Keys : reg[k] # NoTunnel})

CloseAllTunnels ==
    /\ MutexFree
    /\ LET ts == {tunnels[k] : k \in Registered} IN
       /\ tobj' = [t \in TunnelIds |-> IF t \in ts THEN Shutdown(tobj, t)[t] ELSE tobj[t]]
       /\ clients' = [c \in ClientIds |->
                        IF \E t \in ts : tobj[t].client = c THEN CloseClient(clients, c)[c] ELSE clients[c]]
    /\ tunnels' = [k \in Keys |-> NoTunnel]
    /\ ret' = [Reply("closeall", "", 0, 0, "") EXCEPT !.count = CloseAllCount(tunnels)]
    /\ UNCHANGED <<cr, mainPc, healthPc, reachable, sess, rc>>


\* ------------------------------------------------------------ environment
\* The TCP transport under a connection is lost (reset, cable, server restart)
TransportDown(c) ==
    /\ clients[c].st = "open"
    /\ clients[c].up
    /\ clients' = [clients EXCEPT ![c].up = FALSE]
    /\ ret' = NoRet
    /\ UNCHANGED <<tunnels, cr, tobj, mainPc, healthPc, reachable, sess, rc>>

ServerDown(h) ==
    /\ reachable[h]
    /\ reachable' = [reachable EXCEPT ![h] = FALSE]
    /\ ret' = NoRet
    /\ UNCHANGED <<tunnels, cr, tobj, mainPc, healthPc, clients, sess, rc>>

ServerUp(h) ==
    /\ ~reachable[h]
    /\ reachable' = [reachable EXCEPT ![h] = TRUE]
    /\ ret' = NoRet
    /\ UNCHANGED <<tunnels, cr, tobj, mainPc, healthPc, clients, sess, rc>>

\* ----------------------------------------- the keepalive goroutine (306-320)
\* Every 10 s: SendRequest("keepalive@openssh.com"); on error log and return
KeepaliveTick(c) ==
    /\ clients[c].ka = "running"
    /\ clients' = IF Usable(c) THEN clients ELSE [clients EXCEPT ![c].ka = "exited"]
    /\ ret' = NoRet
    /\ UNCHANGED <<tunnels, cr, tobj, mainPc, healthPc, reachable, sess, rc>>

\* ------------------------------------------------- the reconnect channel
\* reconnect is unbuffered: make(chan struct{}). A send or a receive in a select
\* with a default case goes through only when the other side is parked on the
\* channel, that is blocked in a plain send or receive (or a select without
\* default). "recv" and "send" are those parked positions.
ReceiverParked(t) == mainPc[t] = "recv"
SenderParked(t) == healthPc[t] = "send"

\* --------------------------------------------------------- Tunnel.start
\* Faulty variant of StartDefers: start also closes done when it returns
StartDefersAndDone(to, t) == [to EXCEPT ![t].listener = "closed", ![t].done = "closed"]

\* The deferred calls of start, run on return: healthCheck.Stop(),
\* t.listener.Close(), and Close() on the client that t.client held when the
\* defer statement ran (a deferred call's receiver is evaluated at the defer)
StartDefers(to, t) == [to EXCEPT ![t].listener = "closed"]

StartReturn(t) ==
    /\ mainPc' = [mainPc EXCEPT ![t] = "exited"]
    /\ tobj' = StartDefers(tobj, t)
    /\ clients' = CloseClient(clients, tobj[t].client0)

\* The select at the top of the loop, once Accept has returned without a fatal
\* error: case <-t.reconnect when a sender is parked, else default: Accept()
\* again. (case <-t.done is not ready here: CloseTunnel closes done and the
\* listener in one critical section, and Accept returned from an open listener.)
StartSelect(t) ==
    IF SenderParked(t)
    THEN /\ mainPc' = [mainPc EXCEPT ![t] = "reconnect"]
         /\ healthPc' = [healthPc EXCEPT ![t] = "wait"]
         /\ rc' = [rc EXCEPT ![MainProc(t)].pc = "dial"]
    ELSE UNCHANGED <<mainPc, healthPc, rc>>

\* ------------------------------------------------- Tunnel.updateActivity
\* Time passes (the clock never goes back); the model stops it at MaxTime
Tick(t) ==
    /\ tobj[t].st = "live"
    /\ tobj[t].clock < MaxTime
    /\ tobj' = [tobj EXCEPT ![t].clock = @ + 1]
    /\ ret' = NoRet
    /\ UNCHANGED <<tunnels, cr, mainPc, healthPc, clients, reachable, sess, rc>>

\* Faulty variant of UpdateActivity: the timestamp is taken before the lock is
\* waited for, so it is older than the time of the write
UpdateActivityStale(to, t) == [to EXCEPT ![t].lastActivity = to[t].clock - 1]

\* t.activityMu.Lock(); t.LastActivity = time.Now(); t.activityMu.Unlock()
UpdateActivity(to, t) == [to EXCEPT ![t].lastActivity = to[t].clock]

\* -------------------------------------------------- the activity meter
\* The tunnel's session counters (ActiveConns, TotalConns, read by
\* server.ListTunnels) and the two operations of the meter that maintain them.
\* A session begins when forward starts and ends when forward returns.

\* Faulty variant of SessionBegan: it counts the connection and forgets to
\* mark it active
SessionBeganTotalOnly(to, t) == [to EXCEPT ![t].totalConns = @ + 1]

\* session_began(): one more active session, one more session in total
SessionBegan(to, t) == [to EXCEPT ![t].activeConns = @ + 1, ![t].totalConns = @ + 1]

\* Faulty variant of SessionEnded: an exit path that does not report the end
SessionEndedNever(to, t) == to

\* session_ended(): one active session fewer
SessionEnded(to, t) == [to EXCEPT ![t].activeConns = @ - 1]

\* Accept returns a connection: go t.forward(local), which begins with
\* updateActivity, isActive = true, local.SetDeadline(30 s), go <dial goroutine>
StartAccept(t) ==
    /\ mainPc[t] = "accept"
    /\ tobj[t].listener = "open"
    /\ FreeSessions # {}
    /\ sess' = [sess EXCEPT ![NextSession] =
                  [NoSess EXCEPT !.t = t, !.fwd = "setup", !.dial = "dial", !.local = "open"]]
    /\ tobj' = SessionBegan(UpdateActivity([tobj EXCEPT ![t].isActive = TRUE], t), t)
    /\ StartSelect(t)
    /\ ret' = NoRet
    /\ UNCHANGED <<tunnels, cr, clients, reachable>>

\* Faulty variant of OnTemporaryError: the error is taken for a fatal one
OnTemporaryErrorReturn(t) == StartReturn(t) /\ UNCHANGED <<healthPc, rc>>

\* if netErr, ok := err.(net.Error); ok && netErr.Temporary() { log; continue }
OnTemporaryError(t) == StartSelect(t) /\ UNCHANGED <<tobj, clients>>

\* Accept returns a net.Error with Temporary(); the step reports the error
StartAcceptTemporary(t) ==
    /\ mainPc[t] = "accept"
    /\ tobj[t].listener = "open"
    /\ OnTemporaryError(t)
    /\ ret' = Reply("accept", tobj[t].host, tobj[t].lp, tobj[t].rp, "temporary error")
    /\ UNCHANGED <<tunnels, cr, reachable, sess>>

\* Accept returns any other error (always so once the listener is closed), or
\* the select finds done closed: return
StartAcceptFatal(t) ==
    /\ mainPc[t] = "accept"
    /\ StartReturn(t)
    /\ ret' = NoRet
    /\ UNCHANGED <<tunnels, cr, healthPc, reachable, sess, rc>>

\* -------------------------------------------------- Tunnel.monitorHealth
\* case <-t.healthCheck.C (the ticker runs until start returns). isActive: reset
\* it. Else probe t.client: SendRequest is answered without error (continue),
\* answered with an error, or not answered within 5 s (both: raise reconnect)
\* The step reports the probe it sent and how the probe ended.
HealthTick(t) ==
    /\ healthPc[t] = "wait"
    /\ mainPc[t] # "exited"
    /\ IF tobj[t].isActive
       THEN /\ tobj' = [tobj EXCEPT ![t].isActive = FALSE]
            /\ ret' = NoRet
            /\ UNCHANGED healthPc
       ELSE /\ \/ /\ Usable(tobj[t].client)
                  /\ ret' = Reply("probe", tobj[t].host, tobj[t].lp, tobj[t].rp, "")
                  /\ UNCHANGED healthPc
               \/ /\ ret' = Reply("probe", tobj[t].host, tobj[t].lp, tobj[t].rp, "no reply")
                  /\ healthPc' = [healthPc EXCEPT ![t] = "raise"]
            /\ UNCHANGED tobj
    /\ UNCHANGED <<tunnels, cr, mainPc, clients, reachable, sess, rc>>

\* select { case t.reconnect <- struct{}{}: default: }; continue
HealthRaise(t) ==
    /\ healthPc[t] = "raise"
    /\ healthPc' = [healthPc EXCEPT ![t] = "wait"]
    /\ IF ReceiverParked(t)
       THEN /\ mainPc' = [mainPc EXCEPT ![t] = "reconnect"]
            /\ rc' = [rc EXCEPT ![MainProc(t)].pc = "dial"]
       ELSE UNCHANGED <<mainPc, rc>>
    /\ ret' = NoRet
    /\ UNCHANGED <<tunnels, cr, tobj, clients, reachable, sess>>

\* case <-t.done: return
HealthDone(t) ==
    /\ healthPc[t] = "wait"
    /\ tobj[t].done = "closed"
    /\ healthPc' = [healthPc EXCEPT ![t] = "exited"]
    /\ ret' = NoRet
    /\ UNCHANGED <<tunnels, cr, tobj, mainPc, clients, reachable, sess, rc>>


\* ------------------------------------------------------- Tunnel.forward
TunnelOf(p) == IF p[1] = "start" THEN p[2] ELSE sess[p[2]].t

\* The remote stream of a session carries data while it has been dialed, not
\* closed, and the SSH client it runs over is usable
RemoteAlive(s) == sess[s].remote # NoClient /\ ~sess[s].remoteClosed /\ Usable(sess[s].remote)

\* attempts < 3 of the retry loop
MaxAttempts == 3

\* Faulty variant of DialClient: the dial goes through the client the tunnel
\* was created with, whatever reconnectSSH has installed since
DialClientAtStart(t) == tobj[t].client0

\* The receiver of t.client.Dial: the field is read at each attempt
DialClient(t) == tobj[t].client

\* remote, err = t.client.Dial("tcp", localhost:rp): a channel over the client
\* t.client holds now. It fails when that client is not usable or the remote
\* port refuses.
DialAttempt(s) ==
    /\ sess[s].dial = "dial"
    /\ \/ /\ Usable(DialClient(sess[s].t))
          /\ sess' = [sess EXCEPT ![s].remote = DialClient(sess[s].t), ![s].dial = "finished"]
       \/ sess' = [sess EXCEPT ![s].dial = IF sess[s].attempts < MaxAttempts - 1 THEN "sleep" ELSE "finished"]
    /\ ret' = NoRet
    /\ UNCHANGED <<tunnels, cr, tobj, mainPc, healthPc, clients, reachable, rc>>

\* time.Sleep(attempts+1 s) is over; t.client.Conn.Wait() is called on the
\* client t.client holds now
DialSleepDone(s) ==
    /\ sess[s].dial = "sleep"
    /\ sess' = [sess EXCEPT ![s].dial = "wait", ![s].waitOn = tobj[sess[s].t].client]
    /\ ret' = NoRet
    /\ UNCHANGED <<tunnels, cr, tobj, mainPc, healthPc, clients, reachable, rc>>

\* Wait() returns, always with a non-nil error, once that connection has shut
\* down: the goroutine calls t.reconnectSSH()
DialWaitReturns(s) ==
    /\ sess[s].dial = "wait"
    /\ ShutDown(sess[s].waitOn)
    /\ sess' = [sess EXCEPT ![s].dial = "reconnect", ![s].waitOn = NoClient]
    /\ rc' = [rc EXCEPT ![DialProc(s)].pc = "dial"]
    /\ ret' = NoRet
    /\ UNCHANGED <<tunnels, cr, tobj, mainPc, healthPc, clients, reachable>>

\* Faulty variant of CloseLocal: the accepted connection is left open
CloseLocalNever(ss, s) == ss

\* defer local.Close(), the first deferred call of forward
CloseLocal(ss, s) == [ss EXCEPT ![s].local = "closed"]

\* case <-connectChan: the dial goroutine is done. remote == nil: return (the
\* deferred local.Close()); else the pump phase starts (two copyData goroutines)
ForwardConnected(s) ==
    /\ sess[s].fwd = "setup"
    /\ sess[s].dial = "finished"
    /\ sess' = IF sess[s].remote = NoClient
               THEN [CloseLocal(sess, s) EXCEPT ![s].fwd = "done"]
               ELSE [sess EXCEPT ![s].fwd = "pump", ![s].up = "run", ![s].down = "run"]
    /\ tobj' = IF sess[s].remote = NoClient THEN SessionEnded(tobj, sess[s].t) ELSE tobj
    /\ ret' = NoRet
    /\ UNCHANGED <<tunnels, cr, mainPc, healthPc, clients, reachable, rc>>

\* case <-time.After(10 s): return (the deferred local.Close()); the dial
\* goroutine goes on by itself
ForwardSetupTimeout(s) ==
    /\ sess[s].fwd = "setup"
    /\ sess' = [CloseLocal(sess, s) EXCEPT ![s].fwd = "done"]
    /\ tobj' = SessionEnded(tobj, sess[s].t)
    /\ ret' = NoRet
    /\ UNCHANGED <<tunnels, cr, mainPc, healthPc, clients, reachable, rc>>

\* Faulty variant of Cancel: the context is left as it is
CancelNothing(ss, s) == ss

\* cancel() of the session's context: ctx.Done() is closed from now on
Cancel(ss, s) == [ss EXCEPT ![s].ctx = TRUE]

\* A copyData goroutine returns: defer cancel(), defer wg.Done(). The cause of
\* the return (the err it stopped on) is what the step reports.
Dirs == {"up", "down"}
PumpRunning(s, d) == IF d = "up" THEN sess[s].up = "run" ELSE sess[s].down = "run"
PumpReturn(s, d, why) ==
    /\ sess' = IF d = "up" THEN [Cancel(sess, s) EXCEPT ![s].up = "done", ![s].buf[d] = 0]
                           ELSE [Cancel(sess, s) EXCEPT ![s].down = "done", ![s].buf[d] = 0]
    /\ ret' = Reply("copyData", "", 0, 0, why)
    /\ UNCHANGED <<tunnels, cr, tobj, mainPc, healthPc, clients, reachable, rc>>

\* The source and the destination of a direction: "up" is
\* copyData(remote, local), "down" is copyData(local, remote)
SourceOpen(s, d) == IF d = "up" THEN sess[s].local = "open" ELSE RemoteAlive(s)
DestOpen(s, d) == IF d = "up" THEN RemoteAlive(s) ELSE sess[s].local = "open"

\* The bytes read and not yet written by the pumps of a tunnel in a direction
RECURSIVE Buffered(_, _, _)
Buffered(S, t, d) ==
    IF S = {} THEN 0
    ELSE LET s == CHOOSE x \in S : TRUE
         IN (IF sess[s].t = t THEN sess[s].buf[d] ELSE 0) + Buffered(S \ {s}, t, d)

\* n, err := src.Read(buf) with err == nil: a chunk of n bytes is in the buffer
\* (a Read that was already blocked when the context was cancelled completes
\* like any other). The model stops reading at MaxBytes per tunnel and direction.
PumpRead(s, d, n) ==
    /\ PumpRunning(s, d)
    /\ sess[s].buf[d] = 0
    /\ SourceOpen(s, d)
    /\ tobj[sess[s].t].bytes[d] + Buffered(Sessions, sess[s].t, d) + n <= MaxBytes
    /\ sess' = [sess EXCEPT ![s].buf[d] = n]
    /\ ret' = NoRet
    /\ UNCHANGED <<tunnels, cr, tobj, mainPc, healthPc, clients, reachable, rc>>

\* Faulty variant of RecordBytes: the counter is set to the size of the last
\* chunk instead of growing by it
RecordBytesLast(to, t, d, n) == [to EXCEPT ![t].bytes[d] = n]

\* record_bytes_sent(n) for "up", record_bytes_received(n) for "down"
RecordBytes(to, t, d, n) == [to EXCEPT ![t].bytes[d] = @ + n]

\* Faulty variant of WriteChunk: a short write, the last byte of the chunk is
\* not sent
WriteChunkShort(ss, s, d) ==
    [ss EXCEPT ![s].buf[d] = 0, ![s].moved[d] = @ + ss[s].buf[d] - 1]

\* dst.Write(buf[:n]): the whole chunk goes to the destination (moved is what
\* the destination has received) and the buffer is free for the next Read
WriteChunk(ss, s, d) ==
    [ss EXCEPT ![s].buf[d] = 0, ![s].moved[d] = @ + ss[s].buf[d]]

\* _, err = dst.Write(buf[:n]) with err == nil: the chunk is transferred, the
\* direction's byte counter of the tunnel grows by n, t.updateActivity()
PumpWrite(s, d) ==
    /\ PumpRunning(s, d)
    /\ sess[s].buf[d] # 0
    /\ DestOpen(s, d)
    /\ sess' = WriteChunk(sess, s, d)
    /\ tobj' = UpdateActivity(RecordBytes(tobj, sess[s].t, d, sess[s].buf[d]), sess[s].t)
    /\ ret' = NoRet
    /\ UNCHANGED <<tunnels, cr, mainPc, healthPc, clients, reachable, rc>>

\* case <-ctx.Done(): return
PumpCtxDone(s, d) ==
    /\ PumpRunning(s, d)
    /\ sess[s].ctx
    /\ PumpReturn(s, d, "context canceled")

\* Read or Write fails because an end is closed or its SSH client is gone
PumpConnError(s, d) ==
    /\ PumpRunning(s, d)
    /\ sess[s].local = "closed" \/ ~RemoteAlive(s)
    /\ PumpReturn(s, d, "use of closed network connection")

\* src.Read hits its 5 s deadline (nothing to read): err != nil, so
\* { if !isClosedError(err) && !isTimeout(err) { log }; return }
PumpReadTimeout(s, d) ==
    /\ PumpRunning(s, d)
    /\ PumpReturn(s, d, "i/o timeout")

\* The peer on the source side closes: Read returns io.EOF, return
PumpPeerEOF(s, d) ==
    /\ PumpRunning(s, d)
    /\ PumpReturn(s, d, "EOF")

\* Faulty variant of CloseSockets: the remote stream is left open
CloseSocketsLocalOnly(ss, s) == [ss EXCEPT ![s].local = "closed"]

\* defer remote.Close() and defer local.Close() of forward
CloseSockets(ss, s) == [CloseLocal(ss, s) EXCEPT ![s].remoteClosed = TRUE]

\* forward returns from its last select and runs its deferred calls: cancel(),
\* remote.Close(), local.Close(); the step reports which case it took
ForwardReturn(s, why) ==
    /\ sess' = [CloseSockets(Cancel(sess, s), s) EXCEPT ![s].fwd = "done"]
    /\ tobj' = SessionEnded(tobj, sess[s].t)
    /\ ret' = Reply("forward", "", 0, 0, why)
    /\ UNCHANGED <<tunnels, cr, mainPc, healthPc, clients, reachable, rc>>

\* case <-done: wg.Wait() returned, both copyData goroutines are done
ForwardPumpsDone(s) ==
    /\ sess[s].fwd = "pump"
    /\ sess[s].up = "done" /\ sess[s].down = "done"
    /\ ForwardReturn(s, "")

\* case <-time.After(12 h): the maximum session duration
ForwardSessionCap(s) ==
    /\ sess[s].fwd = "pump"
    /\ ForwardReturn(s, "session timeout")

\* --------------------------------------------------- Tunnel.reconnectSSH
\* What the caller does when reconnectSSH returns an error: start returns (its
\* defers run); the dial goroutine logs, closes connectChan and returns
ReconnectFailed(p) ==
    IF p[1] = "start"
    THEN /\ StartReturn(p[2])
         /\ UNCHANGED sess
    ELSE /\ sess' = [sess EXCEPT ![p[2]].dial = "finished"]
         /\ UNCHANGED <<tobj, mainPc, clients>>

\* What the caller does when reconnectSSH returns nil: start loops to its
\* select; the dial goroutine goes to its next attempt
ReconnectSucceeded(p) ==
    IF p[1] = "start"
    THEN /\ mainPc' = [mainPc EXCEPT ![p[2]] = "accept"]
         /\ UNCHANGED sess
    ELSE /\ sess' = [sess EXCEPT ![p[2]].dial = "dial", ![p[2]].attempts = @ + 1]
         /\ UNCHANGED mainPc

\* client, err := ssh.Dial(host:22); err: return it. Else oldClient := t.client
ReconnectDial(p) ==
    /\ rc[p].pc = "dial"
    /\ IF reachable[tobj[TunnelOf(p)].host] /\ FreeClients # {}
       THEN /\ clients' = [clients EXCEPT ![NextClient] = [st |-> "open", up |-> TRUE, ka |-> "none"]]
            /\ rc' = [rc EXCEPT ![p] = [pc |-> "install", new |-> NextClient,
                                        old |-> tobj[TunnelOf(p)].client, installed |-> FALSE]]
            /\ UNCHANGED <<tobj, mainPc, sess>>
       ELSE /\ rc' = [rc EXCEPT ![p] = NoRc]
            /\ ReconnectFailed(p)
    /\ ret' = NoRet
    /\ UNCHANGED <<tunnels, cr, healthPc, reachable>>

\* Faulty variant of InstallClient: the assignment is missing, so the client
\* closed next is still the current one
InstallNothing(to, t, c) == to

\* t.client = client
InstallClient(to, t, c) == [to EXCEPT ![t].client = c]

ReconnectInstall(p) ==
    /\ rc[p].pc = "install"
    /\ tobj' = InstallClient(tobj, TunnelOf(p), rc[p].new)
    /\ rc' = [rc EXCEPT ![p].pc = "close", ![p].installed = TRUE]
    /\ ret' = NoRet
    /\ UNCHANGED <<tunnels, cr, mainPc, healthPc, clients, reachable, sess>>

\* oldClient.Close(); return nil
ReconnectCloseOld(p) ==
    /\ rc[p].pc = "close"
    /\ clients' = CloseClient(clients, rc[p].old)
    /\ rc' = [rc EXCEPT ![p] = NoRc]
    /\ ReconnectSucceeded(p)
    /\ ret' = NoRet
    /\ UNCHANGED <<tunnels, cr, tobj, healthPc, reachable>>

\* ---------------------------------------------------------- specification
\* The whole system: every RPC, every goroutine, the environment
Next ==
    \/ \E h \in Hosts, lp \in LocalPorts, rp \in RemotePorts : CreateTunnelBegin(h, lp, rp)
    \/ CreateTunnelConnect
    \/ CreateTunnelListen
    \/ \E h \in Hosts, rp \in RemotePorts : CloseTunnel(h, rp)
    \/ ListTunnels
    \/ CloseAllTunnels
    \/ \E c \in ClientIds : TransportDown(c)
    \/ \E h \in Hosts : ServerDown(h)
    \/ \E h \in Hosts : ServerUp(h)
    \/ \E c \in ClientIds : KeepaliveTick(c)
    \/ \E t \in TunnelIds : StartAccept(t)
    \/ \E t \in TunnelIds : StartAcceptTemporary(t)
    \/ \E t \in TunnelIds : StartAcceptFatal(t)
    \/ \E t \in TunnelIds : HealthTick(t)
    \/ \E t \in TunnelIds : HealthRaise(t)
    \/ \E t \in TunnelIds : HealthDone(t)
    \/ \E s \in Sessions : DialAttempt(s)
    \/ \E s \in Sessions : DialSleepDone(s)
    \/ \E s \in Sessions : DialWaitReturns(s)
    \/ \E s \in Sessions : ForwardConnected(s)
    \/ \E s \in Sessions : ForwardSetupTimeout(s)
    \/ \E s \in Sessions, d \in Dirs : PumpCtxDone(s, d)
    \/ \E s \in Sessions, d \in Dirs : PumpConnError(s, d)
    \/ \E s \in Sessions, d \in Dirs : PumpReadTimeout(s, d)
    \/ \E s \in Sessions, d \in Dirs : PumpPeerEOF(s, d)
    \/ \E s \in Sessions : ForwardPumpsDone(s)
    \/ \E s \in Sessions : ForwardSessionCap(s)
    \/ \E p \in Procs : ReconnectDial(p)
    \/ \E p \in Procs : ReconnectInstall(p)
    \/ \E p \in Procs : ReconnectCloseOld(p)
    \/ \E s \in Sessions, d \in Dirs, n \in 1..MaxBytes : PumpRead(s, d, n)
    \/ \E s \in Sessions, d \in Dirs : PumpWrite(s, d)
    \/ \E t \in TunnelIds : Tick(t)

Spec == Init /\ [][Next]_vars

\* Next is explored in three workloads, each a restriction of what the
\* environment asks of the daemon.

\* Workload 1, the registry: concurrent RPCs on every key, every tunnel's start,
\* health and keepalive loops running, no local connection arriving.
NextRegistry ==
    \/ \E h \in Hosts, lp \in LocalPorts, rp \in RemotePorts : CreateTunnelBegin(h, lp, rp)
    \/ CreateTunnelConnect
    \/ CreateTunnelListen
    \/ \E h \in Hosts, rp \in RemotePorts : CloseTunnel(h, rp)
    \/ ListTunnels
    \/ CloseAllTunnels
    \/ \E c \in ClientIds : TransportDown(c)
    \/ \E h \in Hosts : ServerDown(h)
    \/ \E h \in Hosts : ServerUp(h)
    \/ \E c \in ClientIds : KeepaliveTick(c)
    \/ \E t \in TunnelIds : StartAcceptTemporary(t)
    \/ \E t \in TunnelIds : StartAcceptFatal(t)
    \/ \E t \in TunnelIds : HealthTick(t)
    \/ \E t \in TunnelIds : HealthRaise(t)
    \/ \E t \in TunnelIds : HealthDone(t)

SpecRegistry == Init /\ [][NextRegistry]_vars

\* The key of the one tunnel of workloads 2 and 3
EngineTunnel == [host |-> "h1", lp |-> 8080, rp |-> 80]
\* No tunnel has been created yet
FirstTunnel == FreeTunnels = TunnelIds
\* No local connection has been accepted yet
FirstSession == FreeSessions = Sessions

\* Workload 2, the forwarding engine: one tunnel, created once, and up to
\* MaxSessions local connections with their dial, reconnect and pump goroutines.
NextEngine ==
    \/ FirstTunnel /\ CreateTunnelBegin(EngineTunnel.host, EngineTunnel.lp, EngineTunnel.rp)
    \/ CreateTunnelConnect
    \/ CreateTunnelListen
    \/ CloseTunnel(EngineTunnel.host, EngineTunnel.rp)
    \/ \E c \in ClientIds : TransportDown(c)
    \/ \E h \in Hosts : ServerDown(h)
    \/ \E h \in Hosts : ServerUp(h)
    \/ \E t \in TunnelIds : StartAccept(t)
    \/ \E t \in TunnelIds : StartAcceptTemporary(t)
    \/ \E t \in TunnelIds : StartAcceptFatal(t)
    \/ \E s \in Sessions : DialAttempt(s)
    \/ \E s \in Sessions : DialSleepDone(s)
    \/ \E s \in Sessions : DialWaitReturns(s)
    \/ \E s \in Sessions : ForwardConnected(s)
    \/ \E s \in Sessions : ForwardSetupTimeout(s)
    \/ \E s \in Sessions, d \in Dirs : PumpCtxDone(s, d)
    \/ \E s \in Sessions, d \in Dirs : PumpConnError(s, d)
    \/ \E s \in Sessions, d \in Dirs : PumpReadTimeout(s, d)
    \/ \E s \in Sessions, d \in Dirs : PumpPeerEOF(s, d)
    \/ \E s \in Sessions : ForwardPumpsDone(s)
    \/ \E s \in Sessions : ForwardSessionCap(s)
    \/ \E p \in Procs : ReconnectDial(p)
    \/ \E p \in Procs : ReconnectInstall(p)
    \/ \E p \in Procs : ReconnectCloseOld(p)

SpecEngine == Init /\ [][NextEngine]_vars

\* Workload 3, one tunnel through its life: created once, all its loops
\* running, one local connection, closed by CloseTunnel or CloseAllTunnels.
NextTunnel1 ==
    \/ FirstTunnel /\ CreateTunnelBegin(EngineTunnel.host, EngineTunnel.lp, EngineTunnel.rp)
    \/ CreateTunnelConnect
    \/ CreateTunnelListen
    \/ CloseTunnel(EngineTunnel.host, EngineTunnel.rp)
    \/ CloseAllTunnels
    \/ \E c \in ClientIds : TransportDown(c)
    \/ \E h \in Hosts : ServerDown(h)
    \/ \E h \in Hosts : ServerUp(h)
    \/ \E c \in ClientIds : KeepaliveTick(c)
    \/ \E t \in TunnelIds : FirstSession /\ StartAccept(t)
    \/ \E t \in TunnelIds : StartAcceptTemporary(t)
    \/ \E t \in TunnelIds : StartAcceptFatal(t)
    \/ \E t \in TunnelIds : HealthTick(t)
    \/ \E t \in TunnelIds : HealthRaise(t)
    \/ \E t \in TunnelIds : HealthDone(t)
    \/ \E s \in Sessions : DialAttempt(s)
    \/ \E s \in Sessions : DialSleepDone(s)
    \/ \E s \in Sessions : DialWaitReturns(s)
    \/ \E s \in Sessions : ForwardConnected(s)
    \/ \E s \in Sessions : ForwardSetupTimeout(s)
    \/ \E s \in Sessions, d \in Dirs : PumpCtxDone(s, d)
    \/ \E s \in Sessions, d \in Dirs : PumpConnError(s, d)
    \/ \E s \in Sessions, d \in Dirs : PumpReadTimeout(s, d)
    \/ \E s \in Sessions, d \in Dirs : PumpPeerEOF(s, d)
    \/ \E s \in Sessions : ForwardPumpsDone(s)
    \/ \E s \in Sessions : ForwardSessionCap(s)
    \/ \E p \in Procs : ReconnectDial(p)
    \/ \E p \in Procs : ReconnectInstall(p)
    \/ \E p \in Procs : ReconnectCloseOld(p)

SpecTunnel == Init /\ [][NextTunnel1]_vars

\* What the Go scheduler, the timers and the network stack guarantee: a
\* goroutine that can take its next step takes it, an armed timer fires, a call
\* on a closed socket returns. Nothing is assumed of the environment: RPCs,
\* local connections, transport losses, peers.
Fairness ==
    /\ WF_vars(CreateTunnelConnect)
    /\ WF_vars(CreateTunnelListen)
    /\ \A c \in ClientIds : WF_vars(KeepaliveTick(c))
    /\ \A t \in TunnelIds :
        /\ WF_vars(tobj[t].listener = "closed" /\ StartAcceptFatal(t))
        /\ WF_vars(HealthTick(t))
        /\ WF_vars(HealthRaise(t))
        /\ WF_vars(HealthDone(t))
    /\ \A s \in Sessions :
        /\ WF_vars(DialAttempt(s))
        /\ WF_vars(DialSleepDone(s))
        /\ WF_vars(DialWaitReturns(s))
        /\ WF_vars(ForwardConnected(s))
        /\ WF_vars(ForwardSetupTimeout(s))
        /\ WF_vars(ForwardPumpsDone(s))
        /\ WF_vars(ForwardSessionCap(s))
        /\ \A d \in Dirs : WF_vars(PumpCtxDone(s, d)) /\ WF_vars(PumpConnError(s, d))
    /\ \A p \in Procs :
        /\ WF_vars(ReconnectDial(p))
        /\ WF_vars(ReconnectInstall(p))
        /\ WF_vars(ReconnectCloseOld(p))

FairSpec == SpecTunnel /\ Fairness

\* Workload 4, traffic: one tunnel on a network that stays up (the server
\* reachable, no transport lost, no accept error), up to MaxSessions local
\* connections whose peers stay connected and move data in both directions.
NextTraffic ==
    \/ FirstTunnel /\ CreateTunnelBegin(EngineTunnel.host, EngineTunnel.lp, EngineTunnel.rp)
    \/ CreateTunnelConnect
    \/ CreateTunnelListen
    \/ CloseTunnel(EngineTunnel.host, EngineTunnel.rp)
    \/ \E t \in TunnelIds : StartAccept(t)
    \/ \E t \in TunnelIds : tobj[t].listener = "closed" /\ StartAcceptFatal(t)
    \/ \E s \in Sessions : DialAttempt(s)
    \/ \E s \in Sessions : DialSleepDone(s)
    \/ \E s \in Sessions : DialWaitReturns(s)
    \/ \E s \in Sessions : ForwardConnected(s)
    \/ \E s \in Sessions : ForwardSetupTimeout(s)
    \/ \E s \in Sessions, d \in Dirs, n \in 1..MaxBytes : PumpRead(s, d, n)
    \/ \E s \in Sessions, d \in Dirs : PumpWrite(s, d)
    \/ \E s \in Sessions, d \in Dirs : PumpCtxDone(s, d)
    \/ \E s \in Sessions, d \in Dirs : PumpConnError(s, d)
    \/ \E s \in Sessions : ForwardPumpsDone(s)
    \/ \E s \in Sessions : ForwardSessionCap(s)
    \/ \E p \in Procs : ReconnectDial(p)
    \/ \E p \in Procs : ReconnectInstall(p)
    \/ \E p \in Procs : ReconnectCloseOld(p)

SpecTraffic == Init /\ [][NextTraffic]_vars

\* Workload 5, activity: time passes over one tunnel while its sessions
\* start and move data and ListTunnels takes snapshots; the network stays up.
NextActivity ==
    \/ FirstTunnel /\ CreateTunnelBegin(EngineTunnel.host, EngineTunnel.lp, EngineTunnel.rp)
    \/ CreateTunnelConnect
    \/ CreateTunnelListen
    \/ ListTunnels
    \/ \E t \in TunnelIds : Tick(t)
    \/ \E t \in TunnelIds : StartAccept(t)
    \/ \E s \in Sessions : DialAttempt(s) /\ sess'[s].remote # NoClient
    \/ \E s \in Sessions : ForwardConnected(s)
    \/ \E s \in Sessions, d \in Dirs, n \in 1..MaxBytes : PumpRead(s, d, n)
    \/ \E s \in Sessions, d \in Dirs : PumpWrite(s, d)
    \/ \E s \in Sessions, d \in Dirs : PumpCtxDone(s, d)
    \/ \E s \in Sessions, d \in Dirs : PumpPeerEOF(s, d)
    \/ \E s \in Sessions : ForwardPumpsDone(s)

SpecActivity == Init /\ [][NextActivity]_vars

\* Workload 6, life cycle: the tunnel of one key is created, listed, closed
\* and created again while the network fails and comes back under a session.
NextLifecycle ==
    \/ CreateTunnelBegin(EngineTunnel.host, EngineTunnel.lp, EngineTunnel.rp)
    \/ CreateTunnelConnect
    \/ CreateTunnelListen
    \/ CloseTunnel(EngineTunnel.host, EngineTunnel.rp)
    \/ CloseAllTunnels
    \/ ListTunnels
    \/ \E c \in ClientIds : TransportDown(c)
    \/ \E h \in Hosts : ServerDown(h)
    \/ \E h \in Hosts : ServerUp(h)
    \/ \E t \in TunnelIds : FirstSession /\ StartAccept(t)
    \/ \E t \in TunnelIds : StartAcceptFatal(t)
    \/ \E s \in Sessions : DialAttempt(s)
    \/ \E s \in Sessions : DialSleepDone(s)
    \/ \E s \in Sessions : DialWaitReturns(s)
    \/ \E s \in Sessions : ForwardConnected(s)
    \/ \E s \in Sessions : ForwardSetupTimeout(s)
    \/ \E s \in Sessions, d \in Dirs : PumpCtxDone(s, d)
    \/ \E s \in Sessions, d \in Dirs : PumpConnError(s, d)
    \/ \E s \in Sessions : ForwardPumpsDone(s)
    \/ \E p \in Procs : ReconnectDial(p)
    \/ \E p \in Procs : ReconnectInstall(p)
    \/ \E p \in Procs : ReconnectCloseOld(p)

SpecLifecycle == Init /\ [][NextLifecycle]_vars


\* ------------------------------------------------------------- properties
\* What a step may change in the registry and in the objects behind it
RegistryState == <<tunnels, tobj, clients, mainPc, healthPc, cr>>

\* C1. Registry uniqueness: while a tunnel keyed (h, rp) is registered, a
\* CreateTunnel(h, lp', rp) that returns, for any lp', returns "tunnel already
\* exists" and leaves the registry, the tunnel objects, the clients and the
\* goroutines as they were; and no CreateTunnel on a registered key gets as far
\* as the SSH dial.
C1_RegistryUniqueness ==
    [][ /\ (ret'.op = "create" /\ tunnels[Key(ret'.host, ret'.rp)] # NoTunnel)
           => (ret'.err = "tunnel already exists" /\ UNCHANGED RegistryState)
        /\ (cr.phase = "idle" /\ cr'.phase = "connect")
           => tunnels[Key(cr'.host, cr'.rp)] = NoTunnel ]_vars

\* A duplicate create with another local port has just been refused
C1_Witness ==
    /\ ret.op = "create"
    /\ ret.err = "tunnel already exists"
    /\ tunnels[Key(ret.host, ret.rp)] # NoTunnel
    /\ tobj[tunnels[Key(ret.host, ret.rp)]].lp # ret.lp

\* C2. Setup failure registers nothing and leaks nothing: a CreateTunnel that
\* returns an error adds no registry entry, creates no tunnel object, starts no
\* start loop and no health loop, and leaves every connection it touched (the
\* TCP connection or SSH client it had dialed) closed.
C2_SetupFailureReleases ==
    [][ (ret'.op = "create" /\ ret'.err # "")
        => /\ UNCHANGED <<tunnels, tobj, mainPc, healthPc>>
           /\ \A c \in ClientIds : clients'[c] # clients[c] => clients'[c].st = "closed"
           /\ cr.conn # NoClient => clients'[cr.conn].st = "closed" ]_vars

\* The bind has just failed after the SSH client was established
C2_Witness ==
    /\ ret.op = "create"
    /\ ret.err = "failed to start local listener"
    /\ \E c \in ClientIds : clients[c].st = "closed"
    /\ cr.phase = "idle"

\* C3. CloseTunnel on a key that is not registered returns "tunnel not found"
\* and changes nothing in the registry, the tunnels or their clients.
C3_CloseAbsentKey ==
    [][ (ret'.op = "close" /\ tunnels[Key(ret'.host, ret'.rp)] = NoTunnel)
        => (ret'.err = "tunnel not found" /\ UNCHANGED RegistryState) ]_vars

\* A close of an absent key has just been refused while another key of the
\* same host is registered and running
C3_Witness ==
    /\ ret.op = "close"
    /\ ret.err = "tunnel not found"
    /\ \E k \in Registered : k[1] = ret.host /\ tobj[tunnels[k]].done = "open"
                             /\ tobj[tunnels[k]].listener = "open"

\* C4. CloseAllTunnels returns the number of tunnels registered when it took
\* the lock and leaves the registry empty; the registry grows only by a
\* successful CreateTunnel; and ListTunnels on an empty registry returns an
\* empty list.
C4_CloseAllCountAndDrain ==
    [][ /\ ret'.op = "closeall"
           => (ret'.count = Cardinality(Registered) /\ Registered' = {})
        /\ ~(Registered' \subseteq Registered)
           => (ret'.op = "create" /\ ret'.err = "")
        /\ (ret'.op = "list" /\ Registered = {}) => ret'.list = {} ]_vars

\* CloseAllTunnels has just closed two tunnels
C4_Witness ==
    /\ ret.op = "closeall"
    /\ ret.count >= 2
    /\ Registered = {}
    /\ \A t \in TunnelIds : tobj[t].st = "live" => tobj[t].done = "closed"

\* A tunnel that has not been closed and whose start loop runs
Running(t) == tobj[t].st = "live" /\ tobj[t].done = "open" /\ mainPc[t] # "exited"

\* Both pumps have exited and both sockets of the session are closed (the
\* remote stream counts as closed once its SSH client is closed)
SessionTerminated(s) ==
    /\ sess[s].fwd = "done"
    /\ sess[s].up # "run" /\ sess[s].down # "run"
    /\ sess[s].local = "closed"
    /\ sess[s].remote = NoClient \/ sess[s].remoteClosed \/ clients[sess[s].remote].st = "closed"

\* C5. After CloseTunnel has returned for a tunnel, no forwarding session is
\* spawned for it any more, and every session that belongs to it eventually
\* terminates: pumps exited, local and remote sockets closed, whatever the
\* peers do.
C5_CloseDrainsSessions ==
    /\ [][ \A s \in Sessions : (sess[s].fwd = "idle" /\ sess'[s].fwd # "idle")
                               => tobj[sess'[s].t].done = "open" ]_vars
    /\ \A s \in Sessions :
         (sess[s].fwd # "idle" /\ tobj[sess[s].t].done = "closed") ~> SessionTerminated(s)

\* A session of a closed tunnel whose forward has given up on the setup while
\* its dial goroutine, having reconnected SSH, holds an open remote stream
C5_Witness ==
    \E s \in Sessions :
        /\ sess[s].fwd = "done"
        /\ tobj[sess[s].t].done = "closed"
        /\ RemoteAlive(s)

\* C6. Automatic reconnection: once the SSH transport of a running tunnel is
\* dead, then, unless the tunnel is closed or stops or the server becomes
\* unreachable, the tunnel eventually holds a usable SSH client again.
C6_AutomaticReconnection ==
    \A t \in TunnelIds :
        (Running(t) /\ ShutDown(tobj[t].client))
        ~> (~Running(t) \/ Usable(tobj[t].client) \/ ~reachable[tobj[t].host])

\* An idle running tunnel with a dead transport and a reachable server,
\* every session of it over
C6_Witness ==
    \E t \in TunnelIds :
        /\ Running(t)
        /\ ShutDown(tobj[t].client)
        /\ reachable[tobj[t].host]
        /\ healthPc[t] = "raise"
        /\ \A s \in Sessions : sess[s].t = t => sess[s].dial = "finished" /\ sess[s].fwd = "done"

\* C7. Health-driven reconnect: whenever the health loop raises the reconnect
\* signal after a failed idle probe, the start loop eventually receives it and
\* runs reconnectSSH, unless the tunnel is closed or stops first.
C7_HealthSignalReceived ==
    \A t \in TunnelIds :
        (healthPc[t] = "raise") ~> (mainPc[t] = "reconnect" \/ ~Running(t))

\* The health loop is about to raise the signal on a running tunnel
C7_Witness ==
    \E t \in TunnelIds : healthPc[t] = "raise" /\ Running(t) /\ ~Usable(tobj[t].client)

\* The reconnectSSH activations in flight for a tunnel
InFlight(t) == {p \in Procs : rc[p].pc # "idle" /\ TunnelOf(p) = t}

\* C8. Reconnect attempts of one tunnel are serialized: at most one
\* reconnectSSH is in flight for a tunnel in any state.
C8_ReconnectSerialized ==
    \A t \in TunnelIds : Cardinality(InFlight(t)) <= 1

\* Two dial goroutines of one tunnel are inside reconnectSSH, both past the dial
C8_Witness ==
    \E t \in TunnelIds : \E p, q \in InFlight(t) :
        p # q /\ rc[p].pc # "dial" /\ rc[q].pc # "dial"

\* C9. Make-before-break: reconnectSSH closes the old client only after it has
\* established its replacement and installed it, and the client it closes is no
\* longer the tunnel's current one; a reconnectSSH whose dial fails leaves the
\* current client in place and closes nothing; and the client slot of a tunnel
\* is never empty.
C9_MakeBeforeBreak ==
    /\ [](\A t \in TunnelIds : tobj[t].st = "live"
            => (tobj[t].client # NoClient /\ clients[tobj[t].client].st # "none"))
    /\ [][ \A p \in Procs :
           /\ (rc[p].pc = "close" /\ rc'[p].pc = "idle")
              => /\ rc[p].installed
                 /\ clients[rc[p].new].st # "none"
                 /\ tobj[TunnelOf(p)].client # rc[p].old
                 /\ \A c \in ClientIds : c # rc[p].old => clients'[c] = clients[c]
           /\ (rc[p].pc = "dial" /\ rc'[p].pc = "idle")
              => /\ tobj'[TunnelOf(p)].client = tobj[TunnelOf(p)].client
                 /\ p[1] = "forward" => clients' = clients ]_vars

\* A running tunnel after a completed swap: a usable replacement is current,
\* the original client is closed
C9_Witness ==
    \E t \in TunnelIds :
        /\ Running(t)
        /\ mainPc[t] = "accept"
        /\ tobj[t].client # tobj[t].client0
        /\ Usable(tobj[t].client)
        /\ clients[tobj[t].client0].st = "closed"
        /\ InFlight(t) = {}

\* A session in its pump phase, both pumps running, over a usable stream of client c
PumpingOver(s, c) ==
    /\ sess[s].fwd = "pump"
    /\ sess[s].up = "run" /\ sess[s].down = "run"
    /\ sess[s].remote = c
    /\ RemoteAlive(s)

\* C10. The old client is not closed at the swap while a session is still
\* pumping over it: whenever reconnectSSH closes the old client, no session is
\* in its pump phase over a live stream of that client.
C10_OldClientOutlivesSessions ==
    [][ \A p \in Procs : (rc[p].pc = "close" /\ rc'[p].pc = "idle")
                         => ~\E s \in Sessions : PumpingOver(s, rc[p].old) ]_vars

\* reconnectSSH is about to close a client that a session is pumping over
C10_Witness ==
    \E p \in Procs : rc[p].pc = "close" /\ \E s \in Sessions : PumpingOver(s, rc[p].old)

\* The clients reconnectSSH has taken out of service for a running tunnel:
\* the oldClient of an activation past its swap, and every closed client (a
\* running tunnel's clients are closed by reconnectSSH only)
Retired(t) ==
    {c \in ClientIds : clients[c].st = "closed"}
        \cup {rc[p].old : p \in {q \in Procs : rc[q].pc = "close" /\ TunnelOf(q) = t}}

\* C11. After a reconnect swap, a remote dial goes through the client
\* installed by a swap: whenever a dial goroutine of a running tunnel is about
\* to call t.client.Dial, the client it will use has not been retired by
\* reconnectSSH, and a stream it obtains runs over the tunnel's current client.
C11_DialUsesNewClient ==
    /\ [](\A s \in Sessions :
            (sess[s].dial = "dial" /\ Running(sess[s].t))
            => DialClient(sess[s].t) \notin Retired(sess[s].t))
    /\ [][ \A s \in Sessions :
            (sess[s].dial = "dial" /\ sess'[s].remote # sess[s].remote)
            => sess'[s].remote = tobj[sess[s].t].client ]_vars

\* A session accepted after a completed swap holds a live stream over the
\* replacement, the original client being closed
C11_Witness ==
    \E s \in Sessions :
        /\ sess[s].t # NoTunnel
        /\ Running(sess[s].t)
        /\ sess[s].attempts = 0
        /\ RemoteAlive(s)
        /\ sess[s].remote # tobj[sess[s].t].client0
        /\ clients[tobj[sess[s].t].client0].st = "closed"

\* C12. Idle-but-open connections survive: a read timeout does not end a
\* pump loop, so no copyData goroutine returns on the timeout of its read
\* deadline.
C12_ReadTimeoutNotFatal ==
    [][ ret'.op = "copyData" => ret'.err # "i/o timeout" ]_vars

\* A pump of a healthy session (both sockets open, stream alive) has just
\* returned on a read timeout and cancelled the session's context
C12_Witness ==
    /\ ret.op = "copyData"
    /\ ret.err = "i/o timeout"
    /\ \E s \in Sessions :
        /\ sess[s].fwd = "pump"
        /\ sess[s].local = "open"
        /\ RemoteAlive(s)
        /\ sess[s].ctx
        /\ sess[s].up = "done" /\ sess[s].down = "run"

\* C13. Remote-dial retry: a session whose first remote dial has failed goes
\* on to its next attempt after the back-off (and so makes its three attempts)
\* for as long as the SSH transport of the tunnel stays alive.
C13_DialRetries ==
    \A s \in Sessions :
        (sess[s].dial = "sleep" /\ sess[s].attempts = 0)
        ~> (sess[s].attempts > 0 \/ sess[s].t = NoTunnel \/ ~Usable(tobj[sess[s].t].client))

\* After one failed attempt the dial goroutine is blocked in Conn.Wait() on a
\* live SSH client, forward has given up on its setup timeout, and the tunnel
\* is running and registered
C13_Witness ==
    \E s \in Sessions :
        /\ sess[s].dial = "wait"
        /\ sess[s].attempts = 0
        /\ Usable(sess[s].waitOn)
        /\ sess[s].fwd = "done"
        /\ sess[s].local = "closed"
        /\ Running(sess[s].t)
        /\ \E k \in Registered : tunnels[k] = sess[s].t

\* The sessions of a tunnel whose forward is in one of the given phases
SessionsIn(t, phases) == {s \in Sessions : sess[s].t = t /\ sess[s].fwd \in phases}

\* C14. Session accounting is exactly-once: the step in which a connection is
\* accepted adds one to active_conns and to total_conns of its tunnel, the step
\* in which its forward returns (on any path) takes one off active_conns, no
\* other step moves the counters; so active_conns is never negative, and it is
\* zero with total_conns the number of accepted connections once all have ended.
C14_SessionAccounting ==
    /\ [](\A t \in TunnelIds :
            /\ tobj[t].activeConns >= 0
            /\ SessionsIn(t, {"setup", "pump"}) = {}
               => (tobj[t].activeConns = 0
                   /\ tobj[t].totalConns = Cardinality(SessionsIn(t, {"done"}))))
    /\ [][ \A t \in TunnelIds :
            LET began == {s \in Sessions : sess[s].fwd = "idle" /\ sess'[s].fwd # "idle" /\ sess'[s].t = t}
                ended == {s \in Sessions : sess[s].fwd # "done" /\ sess'[s].fwd = "done" /\ sess[s].t = t}
            IN /\ tobj'[t].totalConns = tobj[t].totalConns + Cardinality(began)
               /\ tobj'[t].activeConns = tobj[t].activeConns + Cardinality(began) - Cardinality(ended) ]_vars

\* Two connections of one tunnel have ended on two different paths (one never
\* got a remote stream, one went through the pump phase) and the meter is
\* back at zero
C14_Witness ==
    \E t \in TunnelIds :
        /\ tobj[t].totalConns = 2
        /\ tobj[t].activeConns = 0
        /\ \E s1, s2 \in SessionsIn(t, {"done"}) :
            /\ sess[s1].remote = NoClient
            /\ sess[s2].remoteClosed

\* C15 as stated: active_conns of a tunnel equals the number of its sessions
\* in the pump phase; sessions still in setup are not counted.
C15_ActiveIsPumping ==
    \A t \in TunnelIds : tobj[t].activeConns = Cardinality(SessionsIn(t, {"pump"}))

\* C15 amended: active_conns of a tunnel equals the number of its sessions
\* that have begun and not ended, in setup or in the pump phase.
C15_ActiveIsBegunNotEnded ==
    \A t \in TunnelIds : tobj[t].activeConns = Cardinality(SessionsIn(t, {"setup", "pump"}))

\* One session of the tunnel is in setup and another is pumping: both count
C15_Witness ==
    \E t \in TunnelIds :
        /\ tobj[t].activeConns = 2
        /\ SessionsIn(t, {"setup"}) # {}
        /\ SessionsIn(t, {"pump"}) # {}

\* The bytes the pumps of a tunnel's sessions have transferred in a direction
RECURSIVE Moved(_, _, _)
Moved(S, t, d) ==
    IF S = {} THEN 0
    ELSE LET s == CHOOSE x \in S : TRUE
         IN (IF sess[s].t = t THEN sess[s].moved[d] ELSE 0) + Moved(S \ {s}, t, d)

\* C16. bytes_sent and bytes_received of a tunnel never decrease, and each
\* equals the sum, over the tunnel's sessions, of the bytes their pumps have
\* transferred in that direction.
C16_ByteCounters ==
    /\ [](\A t \in TunnelIds, d \in Dirs : tobj[t].bytes[d] = Moved(Sessions, t, d))
    /\ [][ \A t \in TunnelIds, d \in Dirs : tobj'[t].bytes[d] >= tobj[t].bytes[d] ]_vars

\* Two sessions of a tunnel have each sent a chunk, one has received one, and
\* the tunnel has been closed since
C16_Witness ==
    \E t \in TunnelIds :
        /\ tobj[t].bytes["up"] = 2
        /\ tobj[t].bytes["down"] >= 1
        /\ \A s \in Sessions : sess[s].t = t /\ sess[s].moved["up"] = 1
        /\ tobj[t].done = "closed"


\* C17: in every snapshot returned by ListTunnels last_activity >= created_at;
\* a snapshot carries the tunnel's timestamps as they are at the time of the
\* call; created_at never changes after creation and last_activity never
\* moves backward, whatever the interleaving of the sessions updating it, so
\* no later snapshot shows an earlier last_activity.
C17_ActivityMonotonic ==
    /\ [][ ret'.op = "list" =>
             \A e \in ret'.list :
                 /\ e.lastActivity >= e.createdAt
                 /\ \E t \in TunnelIds :
                        /\ tunnels'[Key(e.host, e.rp)] = t
                        /\ e.createdAt = tobj'[t].createdAt
                        /\ e.lastActivity = tobj'[t].lastActivity ]_vars
    /\ [][ \A t \in TunnelIds :
               tobj[t].st = "live" =>
                   /\ tobj'[t].createdAt = tobj[t].createdAt
                   /\ tobj'[t].lastActivity >= tobj[t].lastActivity ]_vars

\* a snapshot taken while two sessions are open shows activity later than the creation
C17_Witness ==
    /\ ret.op = "list"
    /\ \E e \in ret.list :
           /\ e.lastActivity > e.createdAt
           /\ tobj[tunnels[Key(e.host, e.rp)]].activeConns = MaxSessions
           /\ tobj[tunnels[Key(e.host, e.rp)]].bytes.up > 0

\* Entries of one host come in ascending order of remote port, as any
\* sequence sorted by (host, remote_port) has them
SortedByHostPort(q) ==
    \A i, j \in 1..Len(q) : (i < j /\ q[i].host = q[j].host) => q[i].rp < q[j].rp

\* C18: every list returned by ListTunnels is sorted ascending by
\* (host, remote_port), whatever the order in which the tunnels were created.
C18_ListSorted == [][ ret'.op = "list" => SortedByHostPort(ret'.seq) ]_vars

\* a listing of a registry that holds two tunnels of one host
C18_Witness ==
    /\ ret.op = "list"
    /\ Len(ret.seq) = MaxTunnels
    /\ ret.seq[1].host = ret.seq[2].host
    /\ ret.seq[1].rp # ret.seq[2].rp

\* State Closed of a tunnel: its accept loop has stopped, its listener and
\* its SSH client are released
Closed(t) ==
    /\ tobj[t].st = "live"
    /\ mainPc[t] = "exited"
    /\ tobj[t].listener = "closed"
    /\ clients[tobj[t].client].st = "closed"

\* The dial goroutine of session s returned because t.reconnectSSH() failed:
\* it finished without a remote before its last attempt (lines 465-469)
ReconnectHasFailed(s) ==
    /\ sess[s].t # NoTunnel
    /\ sess[s].dial = "finished"
    /\ sess[s].remote = NoClient
    /\ sess[s].attempts < MaxAttempts - 1

\* C19: once a reconnect attempt of a tunnel has failed the tunnel is Closed,
\* and after a ListTunnels call no tunnel whose reconnect attempt has failed is
\* left in the registry or in the returned list (so that its key is free for a
\* new CreateTunnel).
C19_FailedReconnectCloses ==
    /\ [](\A s \in Sessions : ReconnectHasFailed(s) => Closed(sess[s].t))
    /\ [][ ret'.op = "list" =>
             \A s \in Sessions :
                 ReconnectHasFailed(s) =>
                     /\ \A k \in Keys : tunnels'[k] # sess[s].t
                     /\ \A e \in ret'.list : Key(e.host, e.rp) # Key(tobj[sess[s].t].host, tobj[sess[s].t].rp) ]_vars

\* a listing made after the reconnect attempt of the registered tunnel failed
C19_Witness ==
    /\ ret.op = "list"
    /\ \E s \in Sessions :
           /\ ReconnectHasFailed(s)
           /\ tunnels[Key(EngineTunnel.host, EngineTunnel.rp)] = sess[s].t
           /\ Len(ret.seq) = 1

\* A tunnel that has been closed (done is closed) or whose start has returned
Stopped(t) == tobj[t].st = "live" /\ (tobj[t].done = "closed" \/ mainPc[t] = "exited")

\* C20: a tunnel in state Closed never accepts a new forwarding session, and
\* whenever CloseTunnel or CloseAllTunnels removes an entry from the registry
\* the listener of the removed tunnel is closed by the time the entry is gone.
C20_ClosedNeverAccepts ==
    /\ [][ \A t \in TunnelIds :
               Stopped(t) => \A s \in Sessions : sess'[s].t = t => sess[s].t = t ]_vars
    /\ [][ \A k \in Keys :
               (tunnels[k] # NoTunnel /\ tunnels'[k] # tunnels[k]) =>
                   tobj'[tunnels[k]].listener = "closed" ]_vars

\* a close has removed a tunnel whose accept loop has not returned yet,
\* while a tunnel created on the same key since is accepting
C20_Witness ==
    \E t, u \in TunnelIds :
        /\ tobj[t].done = "closed" /\ mainPc[t] = "accept"
        /\ \A k \in Keys : tunnels[k] # t
        /\ tobj[u].done = "open" /\ mainPc[u] = "accept"
        /\ tunnels[Key(tobj[u].host, tobj[u].rp)] = u
        /\ \E s \in Sessions : sess[s].t = u

\* C21: drain ordering on close. Once a tunnel has been closed (done is
\* closed), its SSH client is closed or its registry entry gone only when all
\* of its forwarding sessions have ended.
C21_DrainBeforeRelease ==
    \A t \in TunnelIds :
        ( /\ tobj[t].st = "live"
          /\ tobj[t].done = "closed"
          /\ clients[tobj[t].client].st = "closed" \/ \A k \in Keys : tunnels[k] # t )
        => SessionsIn(t, {"setup", "pump"}) = {}

\* a closed tunnel, client closed and entry removed, with a session whose
\* pumps are still running
C21_Witness ==
    \E t \in TunnelIds :
        /\ tobj[t].done = "closed"
        /\ clients[tobj[t].client].st = "closed"
        /\ \A k \in Keys : tunnels[k] # t
        /\ \E s \in SessionsIn(t, {"pump"}) : sess[s].up = "run" /\ sess[s].down = "run"

\* C22: the health loop sends no probe at a tick at which the tunnel has an
\* active forwarding session (forward has begun and not returned); a probe is
\* sent only at ticks at which the tunnel has none.
C22_NoProbeWhileActive ==
    [][ ret'.op = "probe" =>
          \A t \in TunnelIds :
              (healthPc[t] # "exited" /\ mainPc[t] # "exited" /\ tobj[t].lp = ret'.lp)
              => SessionsIn(t, {"setup", "pump"}) = {} ]_vars

\* a probe has just been sent on a tunnel one of whose sessions has both
\* pumps running over a live stream
C22_Witness ==
    /\ ret.op = "probe"
    /\ \E s \in Sessions :
          /\ sess[s].t # NoTunnel
          /\ tobj[sess[s].t].lp = ret.lp
          /\ PumpingOver(s, tobj[sess[s].t].client)

\* C23: when a keepalive request of the keepalive loop of a running tunnel fails, the loop ends
\* and raises the reconnect signal of its tunnel (a send on t.reconnect is
\* pending or has been received after the step), and the step leaves the
\* listener, the accept loop and the registry as they are.
C23_KeepaliveFailureSignals ==
    [][ \A c \in ClientIds, t \in TunnelIds :
          (clients[c].ka = "running" /\ clients'[c].ka = "exited" /\ tobj[t].client0 = c /\ Running(t))
          => /\ healthPc'[t] = "raise" \/ mainPc'[t] = "reconnect"
             /\ tobj'[t].listener = tobj[t].listener
             /\ mainPc'[t] = mainPc[t]
             /\ tunnels' = tunnels ]_vars

\* the keepalive loop of a running, registered tunnel has ended on a failed
\* request; nobody is sending on the reconnect channel
C23_Witness ==
    \E t \in TunnelIds :
        /\ Running(t)
        /\ tunnels[Key(tobj[t].host, tobj[t].rp)] = t
        /\ clients[tobj[t].client0].ka = "exited"
        /\ tobj[t].listener = "open"
        /\ healthPc[t] = "wait" /\ mainPc[t] = "accept"

\* C24: a running tunnel whose current SSH client is alive has one keepalive
\* task, and that task sends its requests on the current client: the loop of
\* the current client is running and, after a reconnect, none is left running
\* on the client the tunnel was created with.
C24_KeepaliveOnCurrentClient ==
    \A t \in TunnelIds :
        (Running(t) /\ Usable(tobj[t].client))
        => /\ clients[tobj[t].client].ka = "running"
           /\ tobj[t].client0 # tobj[t].client => clients[tobj[t].client0].ka # "running"

\* a running tunnel after a completed reconnect: the installed client is
\* alive, the old one closed, and no reconnect is in flight
C24_Witness ==
    \E t \in TunnelIds :
        /\ Running(t)
        /\ tobj[t].client # tobj[t].client0
        /\ Usable(tobj[t].client)
        /\ clients[tobj[t].client0].st = "closed"
        /\ InFlight(t) = {}

\* C25: in the pump phase the return of either copy direction cancels the
\* other (the shared context is cancelled as soon as one direction has
\* returned, and a cancelled direction returns); forward leaves the pump phase
\* through wg.Wait() only when both directions have returned; once forward has
\* left the pump phase the local and the remote socket are closed.
C25_PumpsJoin ==
    /\ [](\A s \in Sessions : (sess[s].up = "done" \/ sess[s].down = "done") => sess[s].ctx)
    /\ \A s \in Sessions :
          (sess[s].up = "done" \/ sess[s].down = "done") ~> (sess[s].up = "done" /\ sess[s].down = "done")
    /\ [][ \A s \in Sessions :
              (sess[s].fwd = "pump" /\ sess'[s].fwd = "done" /\ ret'.err # "session timeout")
              => sess[s].up = "done" /\ sess[s].down = "done" ]_vars
    /\ [](\A s \in Sessions :
              (sess[s].fwd = "done" /\ sess[s].up # "none")
              => sess[s].local = "closed" /\ sess[s].remoteClosed)

\* forward has returned through wg.Wait() after the two directions stopped
\* over a stream that was still alive
C25_Witness ==
    /\ ret.op = "forward" /\ ret.err = ""
    /\ \E s \in Sessions :
          /\ sess[s].fwd = "done"
          /\ sess[s].up = "done" /\ sess[s].down = "done"
          /\ sess[s].remoteClosed /\ sess[s].local = "closed"
          /\ Usable(sess[s].remote)

\* C26: a temporary accept error leaves the tunnel running. The step in which
\* Accept returns one keeps the accept loop at Accept, the listener open, the
\* SSH clients and the registry as they are and done unclosed, so the next
\* local connection is accepted as before.
C26_TemporaryAcceptError ==
    [][ \A t \in TunnelIds :
          ( /\ ret'.op = "accept" /\ ret'.err = "temporary error"
            /\ mainPc[t] = "accept" /\ tobj[t].listener = "open" /\ tobj[t].lp = ret'.lp )
          => /\ mainPc'[t] = "accept"
             /\ tobj'[t] = tobj[t]
             /\ clients' = clients
             /\ tunnels' = tunnels ]_vars

\* Accept has just returned a temporary error on a running, registered tunnel
\* that is forwarding one connection and can accept another
C26_Witness ==
    /\ ret.op = "accept" /\ ret.err = "temporary error"
    /\ \E t \in TunnelIds :
          /\ Running(t) /\ mainPc[t] = "accept" /\ tobj[t].listener = "open"
          /\ tunnels[Key(tobj[t].host, tobj[t].rp)] = t
          /\ Usable(tobj[t].client)
          /\ SessionsIn(t, {"pump"}) # {}
          /\ FreeSessions # {}

\* C27: when the accept loop returns on a fatal accept error (the tunnel has
\* not been closed and its listener was open), the step closes no SSH client
\* over which a session of the tunnel is still pumping.
C27_FatalAcceptLetsSessionsDrain ==
    [][ \A t \in TunnelIds :
          ( /\ mainPc[t] = "accept" /\ mainPc'[t] = "exited"
            /\ tobj[t].done = "open" /\ tobj[t].listener = "open" )
          => /\ tobj'[t].listener = "closed"
             /\ \A s \in SessionsIn(t, {"pump"}) :
                   PumpingOver(s, sess[s].remote) => clients'[sess[s].remote].st = "open" ]_vars

\* the accept loop has returned on a tunnel that was not closed, and the
\* client a session is pumping over has been closed
C27_Witness ==
    \E t \in TunnelIds :
        /\ mainPc[t] = "exited" /\ tobj[t].done = "open"
        /\ \E s \in SessionsIn(t, {"pump"}) :
              /\ sess[s].up = "run" /\ sess[s].down = "run"
              /\ sess[s].remote = tobj[t].client0
              /\ clients[sess[s].remote].st = "closed"

\* C28: the registry lock is not held across network I/O. While a
\* CreateTunnel call is dialling, handshaking or binding its listener, a
\* ListTunnels, a CloseAllTunnels, a CloseTunnel and a CreateTunnel for another
\* key can take the lock and complete.
C28_LockFreeDuringIO ==
    cr.phase # "idle" =>
        /\ ENABLED ListTunnels
        /\ ENABLED CloseAllTunnels
        /\ \A k \in Registered : ENABLED CloseTunnel(tobj[tunnels[k]].host, tobj[tunnels[k]].rp)
        /\ \A rp \in RemotePorts, lp \in LocalPorts :
              rp # cr.rp => ENABLED CreateTunnelBegin(cr.host, lp, rp)

\* a CreateTunnel call is in its SSH dial while another tunnel is registered
C28_Witness ==
    /\ cr.phase = "connect"
    /\ \E k \in Registered : k # Key(cr.host, cr.rp)

\* The SSH connections that are open, handshaken or not
OpenClients == {c \in ClientIds : clients[c].st \in {"open", "tcp"}}

\* C29: registry operations are serialized. The registry changes only in a
\* step of the call that holds the lock; a ListTunnels reply is taken with no
\* mutation under way and lists exactly the registered tunnels, each complete;
\* a CreateTunnel call succeeds only on a key that was free; a key has at most
\* one open listener, and no SSH connection is open beyond one per registered
\* tunnel and the one of the CreateTunnel call in progress.
C29_RegistrySerialized ==
    /\ [][ tunnels' # tunnels =>
             \/ cr.phase = "idle" /\ cr'.phase = "idle"
             \/ cr.phase = "listen" /\ cr'.phase = "idle" ]_vars
    /\ [][ ret'.op = "list" =>
             /\ cr.phase = "idle"
             /\ {Key(e.host, e.rp) : e \in ret'.list} = {k \in Keys : tunnels'[k] # NoTunnel}
             /\ \A k \in Keys : tunnels'[k] # NoTunnel =>
                    tobj'[tunnels'[k]].client # NoClient /\ tobj'[tunnels'[k]].listener # "none" ]_vars
    /\ [][ (ret'.op = "create" /\ ret'.err = "") =>
             tunnels[Key(ret'.host, ret'.rp)] = NoTunnel /\ tunnels'[Key(ret'.host, ret'.rp)] # NoTunnel ]_vars
    /\ [](\A k \in Keys :
             Cardinality({t \in TunnelIds : /\ tobj[t].st = "live" /\ tobj[t].listener = "open"
                                            /\ Key(tobj[t].host, tobj[t].rp) = k}) <= 1)
    /\ [](Cardinality(OpenClients)
             <= Cardinality({k \in Keys : tunnels[k] # NoTunnel}) + (IF cr.conn # NoClient THEN 1 ELSE 0))

\* a second CreateTunnel on a registered key has been refused; the key has its
\* one client and its one listener
C29_Witness ==
    /\ ret.op = "create" /\ ret.err = "tunnel already exists"
    /\ tunnels[Key(ret.host, ret.rp)] # NoTunnel
    /\ Cardinality(OpenClients) = 1
    /\ tobj[tunnels[Key(ret.host, ret.rp)]].listener = "open"
    /\ ret.lp # tobj[tunnels[Key(ret.host, ret.rp)]].lp

\* Every task of tunnel t has returned: the accept loop, the health loop, the
\* keepalive loop, and forward, the dial goroutine and the two copyData
\* goroutines of each of its sessions
TasksOver(t) ==
    /\ mainPc[t] = "exited"
    /\ healthPc[t] = "exited"
    /\ clients[tobj[t].client0].ka # "running"
    /\ \A s \in Sessions :
          sess[s].t = t =>
              /\ sess[s].fwd = "done" /\ sess[s].dial = "finished"
              /\ sess[s].up # "run" /\ sess[s].down # "run"

\* C30: after CloseTunnel or CloseAllTunnels has closed a tunnel, every task
\* of the tunnel eventually returns.
C30_ShutdownTerminatesTasks ==
    \A t \in TunnelIds : (tobj[t].st = "live" /\ tobj[t].done = "closed") ~> TasksOver(t)

\* a closed tunnel all of whose tasks have returned but the dial goroutine of
\* a session, which is blocked in Conn.Wait() on a live client
C30_Witness ==
    \E t \in TunnelIds, s \in Sessions :
        /\ tobj[t].done = "closed"
        /\ mainPc[t] = "exited" /\ healthPc[t] = "exited"
        /\ clients[tobj[t].client0].ka = "exited"
        /\ sess[s].t = t /\ sess[s].fwd = "done"
        /\ sess[s].dial = "wait" /\ Usable(sess[s].waitOn)

\* C31: when the 12 h session timer fires in the pump phase, forward returns
\* with the context cancelled and the local and the remote socket closed,
\* whether or not a peer has closed, and both copy loops then stop.
C31_SessionCap ==
    /\ [][ \A s \in Sessions :
              (sess[s].fwd = "pump" /\ sess'[s].fwd = "done" /\ ret'.err = "session timeout")
              => sess'[s].ctx /\ sess'[s].local = "closed" /\ sess'[s].remoteClosed ]_vars
    /\ \A s \in Sessions :
          (sess[s].fwd = "done" /\ sess[s].up # "none" /\ sess[s].ctx)
          ~> (sess[s].up = "done" /\ sess[s].down = "done")

\* the session timer has fired on a session whose two copy loops were running
\* over a live stream
C31_Witness ==
    /\ ret.op = "forward" /\ ret.err = "session timeout"
    /\ \E s \in Sessions :
          /\ sess[s].fwd = "done"
          /\ sess[s].up = "run" /\ sess[s].down = "run"
          /\ Usable(sess[s].remote)
          /\ sess[s].local = "closed" /\ sess[s].remoteClosed

\* C32: errors inside a forwarding session are local to it. A step of the
\* tasks of a session (forward, its dial goroutine with the reconnect it may
\* run, its copy loops) leaves the accept loop, the listener and the registry
\* as they are, and takes away neither socket from any other session of the tunnel.
C32_SessionErrorsLocal ==
    [][ \A s \in Sessions :
          (sess[s].t # NoTunnel /\ (sess'[s] # sess[s] \/ rc'[DialProc(s)] # rc[DialProc(s)]))
          => /\ mainPc'[sess[s].t] = mainPc[sess[s].t]
             /\ tobj'[sess[s].t].listener = tobj[sess[s].t].listener
             /\ tunnels' = tunnels
             /\ \A o \in Sessions \ {s} :
                   sess[o].t = sess[s].t =>
                       /\ sess'[o].local = sess[o].local
                       /\ RemoteAlive(o) => /\ sess'[o].remote = sess[o].remote
                                            /\ ~sess'[o].remoteClosed
                                            /\ clients'[sess[o].remote].st = "open" ]_vars

\* a session is in its pump phase, both copy loops running, over a client
\* that was closed although its transport was up, while the tunnel runs on
\* another, live client
C32_Witness ==
    \E o \in Sessions :
        /\ sess[o].fwd = "pump" /\ sess[o].up = "run" /\ sess[o].down = "run"
        /\ ~sess[o].remoteClosed
        /\ clients[sess[o].remote].st = "closed"
        /\ Running(sess[o].t)
        /\ tobj[sess[o].t].client # sess[o].remote
        /\ Usable(tobj[sess[o].t].client)

\* C33: within one direction of one session the chunks are written as they
\* were read. The direction has one buffer: a chunk is read only into the empty
\* buffer of a running direction; every delivery to the destination is the
\* whole chunk in the buffer, once, and empties the buffer; a chunk leaves the
\* buffer undelivered only when the direction returns.
C33_ChunksInOrder ==
    [][ \A s \in Sessions, d \in Dirs :
          /\ sess'[s].moved[d] # sess[s].moved[d] =>
                 /\ sess[s].buf[d] # 0
                 /\ sess'[s].moved[d] = sess[s].moved[d] + sess[s].buf[d]
                 /\ sess'[s].buf[d] = 0
          /\ (sess'[s].buf[d] # sess[s].buf[d] /\ sess'[s].buf[d] # 0) =>
                 sess[s].buf[d] = 0 /\ PumpRunning(s, d)
          /\ (sess[s].buf[d] # 0 /\ sess'[s].buf[d] = 0 /\ sess'[s].moved[d] = sess[s].moved[d]) =>
                 PumpRunning(s, d) /\ sess'[s][d] = "done" ]_vars

\* one direction of a session has delivered its chunks while the other
\* direction has a chunk in its buffer
C33_Witness ==
    \E s \in Sessions :
        /\ sess[s].moved["up"] = MaxBytes
        /\ sess[s].buf["up"] = 0
        /\ sess[s].buf["down"] = MaxBytes
        /\ sess[s].up = "run" /\ sess[s].down = "run"

\* C34: the done channel of a tunnel is closed at most once. Every step in
\* which CloseTunnel or CloseAllTunnels takes a tunnel out of the registry (the
\* only steps that run close(tunnel.done)) finds its done channel open, also
\* when the accept loop of the tunnel has returned before, and done is never
\* closed on a registered tunnel.
C34_DoneClosedOnce ==
    /\ [][ \A k \in Keys :
              (tunnels[k] # NoTunnel /\ tunnels'[k] # tunnels[k])
              => tobj[tunnels[k]].done = "open" /\ tobj'[tunnels[k]].done = "closed" ]_vars
    /\ [](\A k \in Keys : tunnels[k] # NoTunnel => tobj[tunnels[k]].done = "open")

\* a second CloseTunnel on a key has been refused after the first closed a
\* tunnel whose accept loop had returned; the key is free
C34_Witness ==
    /\ ret.op = "close" /\ ret.err = "tunnel not found"
    /\ tunnels[Key(ret.host, ret.rp)] = NoTunnel
    /\ \E t \in TunnelIds :
          /\ tobj[t].done = "closed" /\ mainPc[t] = "exited"
          /\ tobj[t].host = ret.host /\ tobj[t].rp = ret.rp

\* C35: no SSH client is orphaned. In every state each open SSH client is the
\* current client of a tunnel, or the connection of the CreateTunnel call in
\* progress, or in the hands of a reconnectSSH activation that has not returned
\* (its new client before the swap, its old client before the Close).
C35_NoOrphanClient ==
    \A c \in ClientIds :
        clients[c].st = "open" =>
            \/ \E t \in TunnelIds : tobj[t].st = "live" /\ tobj[t].client = c
            \/ cr.conn = c
            \/ \E p \in Procs : rc[p].pc # "idle" /\ (rc[p].new = c \/ rc[p].old = c)

\* a running tunnel with no reconnect in flight and a live SSH client that is
\* not its current one
C35_Witness ==
    \E t \in TunnelIds, c \in ClientIds :
        /\ Running(t) /\ InFlight(t) = {}
        /\ Usable(c) /\ Usable(tobj[t].client)
        /\ tobj[t].client # c
        /\ cr.conn # c

\* C36: once CloseTunnel or CloseAllTunnels has returned for a tunnel (its
\* done channel is closed), no reconnectSSH run by a task of that tunnel
\* establishes a new SSH connection.
C36_NoDialAfterClose ==
    [][ \A p \in Procs :
          (rc[p].pc = "dial" /\ rc'[p].pc = "install") => tobj[TunnelOf(p)].done = "open" ]_vars

\* the dial goroutine of a session of a closed, unregistered tunnel is about
\* to dial the host, which answers
C36_Witness ==
    \E s \in Sessions :
        /\ rc[DialProc(s)].pc = "dial"
        /\ sess[s].t # NoTunnel
        /\ tobj[sess[s].t].done = "closed"
        /\ \A k \in Keys : tunnels[k] # sess[s].t
        /\ reachable[tobj[sess[s].t].host]
        /\ FreeClients # {}

\* C37: every remote stream a session has dialed is eventually closed (by
\* remote.Close() or with its SSH client), also when the dial succeeds after
\* forward has returned on its setup timeout; and forward is in its pump
\* phase only with a remote stream that was dialed.
C37_RemoteStreamClosed ==
    /\ \A s \in Sessions :
          (sess[s].remote # NoClient)
          ~> (sess[s].remote # NoClient /\ (sess[s].remoteClosed \/ clients[sess[s].remote].st = "closed"))
    /\ [](\A s \in Sessions : sess[s].fwd = "pump" => sess[s].remote # NoClient)

\* forward has returned on its setup timeout, the dial goroutine has finished
\* with a stream on the live client of the running tunnel, and the stream is open
C37_Witness ==
    \E s \in Sessions :
        /\ sess[s].fwd = "done" /\ sess[s].up = "none"
        /\ sess[s].dial = "finished"
        /\ RemoteAlive(s)
        /\ Running(sess[s].t)
        /\ sess[s].remote = tobj[sess[s].t].client


\* C38: every accepted local connection is closed by its session, on every
\* exit path of forward: a session that has returned has closed its local
\* connection (whether it left during the setup, after its pumps or on the
\* 12-hour cap), and an open local connection is eventually closed.
C38_LocalClosed ==
    /\ [](\A s \in Sessions : sess[s].fwd = "done" => sess[s].local = "closed")
    /\ \A s \in Sessions : (sess[s].local = "open") ~> (sess[s].local = "closed")

\* A session that gave up during the setup (no remote stream was ever
\* obtained) has returned with its local connection closed
C38_Witness ==
    \E s \in Sessions :
        /\ sess[s].fwd = "done"
        /\ sess[s].remote = NoClient
        /\ sess[s].up = "none"
        /\ sess[s].local = "closed"


\* C39: create/close round trip. A successful CreateTunnel(h, lp, rp) adds
\* exactly the key (h, rp), which was absent; the successful CloseTunnel(h, rp)
\* that follows it gives back the key set of before the create; a
\* CloseTunnel(h, rp) that follows a successful CloseTunnel(h, rp) answers
\* 'tunnel not found' and changes nothing; and a CreateTunnel(h, lp', rp) that
\* follows it passes the duplicate check and is never answered 'tunnel already
\* exists'.
C39_CreateCloseRoundTrip ==
    /\ [][ret'.op = "create" /\ ret'.err = "" /\ cr.phase = "listen"
            => /\ Key(ret'.host, ret'.rp) \notin Registered
               /\ Registered' = Registered \cup {Key(ret'.host, ret'.rp)}]_vars
    /\ [][\A h \in Hosts, rp \in RemotePorts :
            (ret.op = "create" /\ ret.err = "" /\ ret.host = h /\ ret.rp = rp /\ CloseTunnel(h, rp))
            => /\ ret'.err = ""
               /\ Key(h, rp) \in Registered
               /\ Registered' = Registered \ {Key(h, rp)}]_vars
    /\ [][\A h \in Hosts, rp \in RemotePorts :
            (ret = Reply("close", h, 0, rp, "") /\ CloseTunnel(h, rp))
            => /\ ret'.err = "tunnel not found"
               /\ UNCHANGED <<tunnels, tobj, clients>>]_vars
    /\ [][\A h \in Hosts, lp \in LocalPorts, rp \in RemotePorts :
            (ret = Reply("close", h, 0, rp, "") /\ CreateTunnelBegin(h, lp, rp))
            => /\ ret'.err # "tunnel already exists"
               /\ cr'.phase = "connect" /\ cr'.host = h /\ cr'.lp = lp /\ cr'.rp = rp]_vars
    /\ [][cr.phase # "idle" /\ ret'.op = "create" => ret'.err # "tunnel already exists"]_vars

\* A tunnel was created and closed, and a tunnel with the same key and another
\* local port has just been created
C39_Witness ==
    /\ ret.op = "create" /\ ret.err = ""
    /\ Exists(Key(ret.host, ret.rp))
    /\ \E t \in TunnelIds :
          /\ tobj[t].st = "live" /\ tobj[t].done = "closed"
          /\ tobj[t].host = ret.host /\ tobj[t].rp = ret.rp /\ tobj[t].lp # ret.lp
          /\ t # Lookup(ret.host, ret.rp)


\* C40: CloseTunnel(h, rp) affects only the tunnel keyed (h, rp): every other
\* registered tunnel keeps its registry entry, its listener, its done channel
\* and every other field as they were, and its SSH client is left as it was;
\* the call touches no start loop, health loop or session. ListTunnels changes
\* neither the registry nor any tunnel, client, loop or session.
C40_CloseTunnelFrame ==
    /\ [][\A h \in Hosts, rp \in RemotePorts :
            CloseTunnel(h, rp)
            => /\ \A k \in Registered \ {Key(h, rp)} :
                    /\ tunnels'[k] = tunnels[k]
                    /\ tobj'[tunnels[k]] = tobj[tunnels[k]]
                    /\ clients'[tobj[tunnels[k]].client] = clients[tobj[tunnels[k]].client]
               /\ UNCHANGED <<mainPc, healthPc, sess, rc, cr, reachable>>]_vars
    /\ [][ret'.op = "list"
            => UNCHANGED <<tunnels, cr, tobj, mainPc, healthPc, clients, reachable, sess, rc>>]_vars

\* One of two running tunnels has just been closed; the other is registered
\* with its listener, its done channel and its SSH client open
C40_Witness ==
    /\ ret.op = "close" /\ ret.err = ""
    /\ ~Exists(Key(ret.host, ret.rp))
    /\ \E t \in TunnelIds :
          /\ tobj[t].st = "live" /\ tobj[t].host = ret.host /\ tobj[t].rp = ret.rp
          /\ tobj[t].done = "closed"
    /\ \E k \in Registered :
          /\ tobj[tunnels[k]].listener = "open"
          /\ tobj[tunnels[k]].done = "open"
          /\ clients[tobj[tunnels[k]].client].st = "open"

====
